---- MODULE Spec2Model ----
(***************************************************************************)
(* Model of the lease calculator (src/app.py): the two payment functions   *)
(* calculate_monthly_payment and calculate_declining_balance_payments and  *)
(* the "Calculate Payments" handler of main that calls them.               *)
(*                                                                         *)
(* Python floats are IEEE-754 binary64 values.  They are modelled bit for  *)
(* bit: a float is a sign, a 53-bit significand and an exponent, and       *)
(* every arithmetic operation is the exact result rounded to nearest,      *)
(* ties to even.  TLC's integers are 32 bits wide, so significands are     *)
(* kept as little-endian sequences of 15-bit limbs.  All amounts of the    *)
(* model stay far inside the normal range of binary64, so overflow,        *)
(* underflow and subnormals are not modelled.                              *)
(***************************************************************************)
EXTENDS Integers, Sequences, FiniteSets

(***************************************************************************)
(* Bind(e, F) is F(e) with e evaluated once, before F uses it: TLC hands   *)
(* an operator its arguments unevaluated and, when it collects coverage,   *)
(* evaluates an argument again at each use, which a value drawn from a set *)
(* avoids.  Every operator below binds what it uses more than once.        *)
(***************************************************************************)
Bind(e, F(_)) == CHOOSE r \in {F(v) : v \in {e}} : TRUE
Bind2(e1, e2, F(_, _)) == CHOOSE r \in {F(u, v) : u \in {e1}, v \in {e2}} : TRUE

(***************************************************************************)
(* Natural numbers of arbitrary size: little-endian limbs, no leading      *)
(* zero limb, zero is the empty sequence.  The loops over limbs split      *)
(* their range in two halves, so that the depth of the evaluation grows    *)
(* with the logarithm of the length.                                       *)
(***************************************************************************)
Base == 2^15
Pow2(k) == 2^k

BLimb(a, i) == IF i <= Len(a) THEN a[i] ELSE 0

\* the highest index in lo..hi of a nonzero limb of a, or 0
RECURSIVE BTop(_, _, _)
BTop(a, lo, hi) ==
  IF lo > hi THEN 0
  ELSE IF lo = hi THEN (IF a[lo] # 0 THEN lo ELSE 0)
  ELSE Bind(BTop(a, ((lo + hi) \div 2) + 1, hi),
            LAMBDA t : IF t # 0 THEN t ELSE BTop(a, lo, (lo + hi) \div 2))

BNorm(x) ==
  Bind(x, LAMBDA a :
    IF a = <<>> THEN <<>>
    ELSE IF a[Len(a)] # 0 THEN a
    ELSE SubSeq(a, 1, BTop(a, 1, Len(a))))

RECURSIVE BFromInt(_)
BFromInt(n) ==
  IF n = 0 THEN <<>> ELSE <<n % Base>> \o BFromInt(n \div Base)

\* limbs lo..hi of a + b + carry: <<the limbs, the carry out>>
RECURSIVE BAddR(_, _, _, _, _)
BAddR(a, b, lo, hi, carry) ==
  IF lo = hi
  THEN Bind(BLimb(a, lo) + BLimb(b, lo) + carry,
            LAMBDA s : <<(<<s % Base>>), s \div Base>>)
  ELSE Bind(BAddR(a, b, lo, (lo + hi) \div 2, carry), LAMBDA l :
       Bind(BAddR(a, b, ((lo + hi) \div 2) + 1, hi, l[2]), LAMBDA h :
         <<l[1] \o h[1], h[2]>>))

BAdd(x, y) ==
  Bind2(x, y, LAMBDA a, b :
    IF a = <<>> THEN b
    ELSE IF b = <<>> THEN a
    ELSE Bind(BAddR(a, b, 1, IF Len(a) > Len(b) THEN Len(a) ELSE Len(b), 0),
              LAMBDA r : IF r[2] = 0 THEN r[1] ELSE r[1] \o <<r[2]>>))

\* limbs lo..hi of a - b - borrow: <<the limbs, the borrow out>>
RECURSIVE BSubR(_, _, _, _, _)
BSubR(a, b, lo, hi, borrow) ==
  IF lo = hi
  THEN Bind(a[lo] - BLimb(b, lo) - borrow,
            LAMBDA d : IF d < 0 THEN <<(<<d + Base>>), 1>> ELSE <<(<<d>>), 0>>)
  ELSE Bind(BSubR(a, b, lo, (lo + hi) \div 2, borrow), LAMBDA l :
       Bind(BSubR(a, b, ((lo + hi) \div 2) + 1, hi, l[2]), LAMBDA h :
         <<l[1] \o h[1], h[2]>>))

\* a - b for a >= b
BSub(x, y) ==
  Bind2(x, y, LAMBDA a, b :
    IF b = <<>> THEN a ELSE BNorm(BSubR(a, b, 1, Len(a), 0)[1]))

\* -1, 0 or 1 as a < b, a = b, a > b on the limbs lo..hi, the high ones first
RECURSIVE BCmpR(_, _, _, _)
BCmpR(a, b, lo, hi) ==
  IF lo > hi THEN 0
  ELSE IF lo = hi THEN (IF a[lo] < b[lo] THEN -1 ELSE IF a[lo] > b[lo] THEN 1 ELSE 0)
  ELSE Bind(BCmpR(a, b, ((lo + hi) \div 2) + 1, hi),
            LAMBDA t : IF t # 0 THEN t ELSE BCmpR(a, b, lo, (lo + hi) \div 2))

BCmp(x, y) ==
  Bind2(x, y, LAMBDA a, b :
    IF Len(a) < Len(b) THEN -1
    ELSE IF Len(a) > Len(b) THEN 1
    ELSE BCmpR(a, b, 1, Len(a)))

\* limbs lo..hi of a * k + carry for 0 <= k < Base
RECURSIVE BMulSmallR(_, _, _, _, _)
BMulSmallR(a, k, lo, hi, carry) ==
  IF lo = hi
  THEN Bind(a[lo] * k + carry, LAMBDA p : <<(<<p % Base>>), p \div Base>>)
  ELSE Bind(BMulSmallR(a, k, lo, (lo + hi) \div 2, carry), LAMBDA l :
       Bind(BMulSmallR(a, k, ((lo + hi) \div 2) + 1, hi, l[2]), LAMBDA h :
         <<l[1] \o h[1], h[2]>>))

BMulSmall(x, n) ==
  Bind2(x, n, LAMBDA a, k :
    IF k = 0 \/ a = <<>> THEN <<>>
    ELSE IF k = 1 THEN a
    ELSE Bind(BMulSmallR(a, k, 1, Len(a), 0),
              LAMBDA r : IF r[2] = 0 THEN r[1] ELSE r[1] \o <<r[2]>>))

BZeros(n) == [i \in 1..n |-> 0]

BShiftLimbs(x, n) == Bind(x, LAMBDA a : IF a = <<>> THEN <<>> ELSE BZeros(n) \o a)

\* a times the limbs lo..hi of b, each at its place
RECURSIVE BMulR(_, _, _, _)
BMulR(a, b, lo, hi) ==
  IF lo = hi THEN BShiftLimbs(BMulSmall(a, b[lo]), lo - 1)
  ELSE BAdd(BMulR(a, b, lo, (lo + hi) \div 2), BMulR(a, b, ((lo + hi) \div 2) + 1, hi))

BMul(x, y) ==
  Bind2(x, y, LAMBDA a, b :
    IF a = <<>> \/ b = <<>> THEN <<>>
    ELSE IF Len(a) >= Len(b) THEN BMulR(a, b, 1, Len(b)) ELSE BMulR(b, a, 1, Len(a)))

\* limbs hi down to lo of floor(a / k) for 0 < k < Base, given the remainder
\* of the limbs above: <<the limbs, the remainder>>
RECURSIVE BDivSmallR(_, _, _, _, _)
BDivSmallR(a, k, lo, hi, rem) ==
  IF lo = hi
  THEN Bind(rem * Base + a[lo], LAMBDA cur : <<(<<cur \div k>>), cur % k>>)
  ELSE Bind(BDivSmallR(a, k, ((lo + hi) \div 2) + 1, hi, rem), LAMBDA h :
       Bind(BDivSmallR(a, k, lo, (lo + hi) \div 2, h[2]), LAMBDA l :
         <<l[1] \o h[1], l[2]>>))

BDivSmall(x, n) ==
  Bind2(x, n, LAMBDA a, k :
    IF a = <<>> THEN <<>>
    ELSE IF k = 1 THEN a
    ELSE BNorm(BDivSmallR(a, k, 1, Len(a), 0)[1]))

BShl(x, n) ==
  Bind2(x, n, LAMBDA a, k : BShiftLimbs(BMulSmall(a, Pow2(k % 15)), k \div 15))

BShr(x, n) ==
  Bind2(x, n, LAMBDA a, k :
    IF k \div 15 >= Len(a) THEN <<>>
    ELSE BDivSmall(SubSeq(a, (k \div 15) + 1, Len(a)), Pow2(k % 15)))

RECURSIVE IntBitLen(_)
IntBitLen(n) == IF n = 0 THEN 0 ELSE 1 + IntBitLen(n \div 2)

BBitLen(x) ==
  Bind(x, LAMBDA a :
    IF a = <<>> THEN 0 ELSE (Len(a) - 1) * 15 + IntBitLen(a[Len(a)]))

\* the low k bits of a
BLow(x, n) ==
  Bind2(x, n, LAMBDA a, k :
    IF k \div 15 >= Len(a) THEN a
    ELSE BNorm(SubSeq(a, 1, k \div 15) \o <<a[(k \div 15) + 1] % Pow2(k % 15)>>))

(***************************************************************************)
(* Exact dyadic numbers [neg, m, e]: the value (-1)^neg * m * 2^e with m a *)
(* natural number of any size.  A float is a dyadic number whose m has     *)
(* exactly 53 bits, or zero (m = <<>>, e = 0; the sign of a zero is kept,  *)
(* as IEEE-754 does).                                                      *)
(***************************************************************************)
Dy(neg, m, e) == [neg |-> neg, m |-> m, e |-> e]

IsZero(x) == x.m = <<>>

\* the exponent two numbers are aligned to before they are compared or added
DyMinE(x, y) ==
  IF IsZero(x) THEN y.e ELSE IF IsZero(y) THEN x.e
  ELSE IF x.e < y.e THEN x.e ELSE y.e

\* the significand of x at the exponent e <= x.e
DyAlign(x, e) == BShl(x.m, x.e - e)

\* -1, 0, 1: the order of the magnitudes
DyCmpAbs(p, q) ==
  Bind2(p, q, LAMBDA x, y :
    Bind(DyMinE(x, y), LAMBDA e : BCmp(DyAlign(x, e), DyAlign(y, e))))

\* -1, 0, 1: the order of the values (a zero of either sign is 0)
DyCmp(p, q) ==
  Bind2(p, q, LAMBDA x, y :
    IF IsZero(x) /\ IsZero(y) THEN 0
    ELSE IF IsZero(x) THEN (IF y.neg THEN 1 ELSE -1)
    ELSE IF IsZero(y) THEN (IF x.neg THEN -1 ELSE 1)
    ELSE IF x.neg /\ ~y.neg THEN -1
    ELSE IF ~x.neg /\ y.neg THEN 1
    ELSE IF x.neg THEN 0 - DyCmpAbs(x, y) ELSE DyCmpAbs(x, y))

DyNeg(p) == Bind(p, LAMBDA x : Dy(~x.neg, x.m, x.e))
DyAbs(p) == Bind(p, LAMBDA x : Dy(FALSE, x.m, x.e))

\* the sum of two numbers of one sign, the difference of two of opposite
\* signs, given their significands a and b at the exponent e
DyAddAligned(x, y, e, a, b) ==
  IF x.neg = y.neg THEN Dy(x.neg, BAdd(a, b), IF a = <<>> /\ b = <<>> THEN 0 ELSE e)
  ELSE Bind(BCmp(a, b), LAMBDA c :
         IF c = 0 THEN Dy(FALSE, <<>>, 0)
         ELSE IF c > 0 THEN Dy(x.neg, BSub(a, b), e)
         ELSE Dy(y.neg, BSub(b, a), e))

\* the exact sum; x + (-x) is +0 and (-0) + (-0) is -0, as in IEEE-754
DyAdd(p, q) ==
  Bind2(p, q, LAMBDA x, y :
    Bind(DyMinE(x, y), LAMBDA e :
      Bind2(DyAlign(x, e), DyAlign(y, e), LAMBDA a, b : DyAddAligned(x, y, e, a, b))))

DySub(x, y) == DyAdd(x, DyNeg(y))

DyMul(p, q) ==
  Bind2(p, q, LAMBDA x, y :
    IF IsZero(x) \/ IsZero(y) THEN Dy(x.neg # y.neg, <<>>, 0)
    ELSE Dy(x.neg # y.neg, BMul(x.m, y.m), x.e + y.e))

\* x * 2^k
DyScale(p, k) == Bind(p, LAMBDA x : IF IsZero(x) THEN x ELSE Dy(x.neg, x.m, x.e + k))

(***************************************************************************)
(* Rounding an exact value to binary64.  sticky says that the exact value  *)
(* is a little more in magnitude than m * 2^e (a division's remainder).    *)
(* dir = 0 rounds to nearest, ties to even; dir = -1 truncates and dir = 1 *)
(* rounds away from zero (the two floats that bracket the exact value).    *)
(***************************************************************************)

\* a significand of 53 or 54 bits at exponent e, as a float
Renormalize(neg, sig, e) ==
  Bind(sig, LAMBDA r :
    IF BBitLen(r) = 54 THEN Dy(neg, BShr(r, 1), e + 1) ELSE Dy(neg, r, e))

\* whether the 53 bits q are rounded up, c being the order of the bits
\* dropped and half a unit in the last place
RoundsUp(q, c, inexact, sticky, dir) ==
  CASE dir = 0 -> c > 0 \/ (c = 0 /\ sticky) \/ (c = 0 /\ q[1] % 2 = 1)
    [] dir = 1 -> inexact
    [] OTHER   -> FALSE

\* x.m has more than 53 bits, sh of them are dropped
RoundLong(x, sh, sticky, dir) ==
  Bind2(BShr(x.m, sh), BLow(x.m, sh), LAMBDA q, rem :
    Bind(BCmp(rem, BShl(<<1>>, sh - 1)), LAMBDA c :
      IF RoundsUp(q, c, rem # <<>> \/ sticky, sticky, dir)
      THEN Renormalize(x.neg, BAdd(q, <<1>>), x.e + sh)
      ELSE Dy(x.neg, q, x.e + sh)))

\* x.m has L <= 53 bits
RoundShort(x, L, sticky, dir) ==
  IF sticky /\ dir = 1
  THEN Renormalize(x.neg, BAdd(BShl(x.m, 53 - L), <<1>>), x.e - (53 - L))
  ELSE Dy(x.neg, BShl(x.m, 53 - L), x.e - (53 - L))

RoundDir(p, sticky, dir) ==
  Bind(p, LAMBDA x :
    Bind(BBitLen(x.m), LAMBDA L :
      IF L = 0 THEN Dy(x.neg, <<>>, 0)
      ELSE IF L <= 53 THEN RoundShort(x, L, sticky, dir)
      ELSE RoundLong(x, L - 53, sticky, dir)))

Round(x) == RoundDir(x, FALSE, 0)

\* int -> float (exact below 2^53)
FromInt(n) == IF n < 0 THEN Round(Dy(TRUE, BFromInt(0 - n), 0)) ELSE Round(Dy(FALSE, BFromInt(n), 0))

FAdd(x, y) == Round(DyAdd(x, y))
FSub(x, y) == Round(DySub(x, y))
FMul(x, y) == Round(DyMul(x, y))

\* n more quotient bits of a division with remainder r (r < 2b) by b:
\* <<the bits as a number, the remainder left>>
RECURSIVE QuotBits(_, _, _)
QuotBits(r, b, n) ==
  IF n = 1
  THEN IF BCmp(r, b) >= 0 THEN <<(<<1>>), BMulSmall(BSub(r, b), 2)>>
       ELSE <<(<<>>), BMulSmall(r, 2)>>
  ELSE Bind(QuotBits(r, b, n \div 2), LAMBDA hi :
       Bind(QuotBits(hi[2], b, n - (n \div 2)), LAMBDA lo :
         <<BAdd(BShl(hi[1], n - (n \div 2)), lo[1]), lo[2]>>))

\* x / y for y # 0 (Python raises ZeroDivisionError otherwise; the callers
\* test it): 56 bits of the quotient of the significands, and whether a
\* remainder is left, rounded
FDiv(p, q) ==
  Bind2(p, q, LAMBDA x, y :
    IF IsZero(x) THEN Dy(x.neg # y.neg, <<>>, 0)
    ELSE Bind(QuotBits(x.m, y.m, 56), LAMBDA qr :
           RoundDir(Dy(x.neg # y.neg, qr[1], x.e - y.e - 55), qr[2] # <<>>, 0)))

\* the exact power x^n, n >= 0
RECURSIVE DyPow(_, _)
DyPow(x, n) ==
  IF n = 0 THEN Dy(FALSE, <<1>>, 0)
  ELSE IF n = 1 THEN x
  ELSE Bind(DyPow(x, n \div 2), LAMBDA p :
       Bind(DyMul(p, p), LAMBDA s : IF n % 2 = 0 THEN s ELSE DyMul(s, x)))

\* x ** n as the C library's pow computes it: glibc's pow is within one unit
\* in the last place of the exact power but not always the nearest float,
\* so the result is either of the two floats that bracket the exact power
\* (dir = -1 the one below, dir = 1 the one above; both are the exact power
\* when it is a float).
FPow(p, n, dir) == Bind(p, LAMBDA x : RoundDir(DyPow(x, n), FALSE, dir))

FLe(x, y) == DyCmp(x, y) <= 0
FZero == Dy(FALSE, <<>>, 0)

(***************************************************************************)
(* f"{x:,.2f}": the decimal nearest to x with two digits after the point,  *)
(* ties to even, as a sign and a number of hundredths.  A negative x       *)
(* nearer to zero than half a hundredth prints as -0.00.                   *)
(***************************************************************************)

\* h * 2^(-sh) rounded to an integer, ties to even
RoundToInteger(h, sh) ==
  Bind2(BShr(h, sh), BLow(h, sh), LAMBDA q, rem :
    Bind(BCmp(rem, BShl(<<1>>, sh - 1)), LAMBDA c :
      IF c > 0 \/ (c = 0 /\ q # <<>> /\ q[1] % 2 = 1) THEN BAdd(q, <<1>>) ELSE q))

Format2f(p) ==
  Bind(p, LAMBDA x :
    IF IsZero(x) THEN [neg |-> x.neg, hundredths |-> <<>>]
    ELSE IF x.e >= 0 THEN [neg |-> x.neg, hundredths |-> BShl(BMulSmall(x.m, 100), x.e)]
    ELSE [neg |-> x.neg,
          hundredths |-> Bind(BMulSmall(x.m, 100), LAMBDA h : RoundToInteger(h, 0 - x.e))])

(***************************************************************************)
(* The form of main: the values the widgets can hold.                      *)
(***************************************************************************)
Fixed == "Fixed Interest Rate Lease"
Declining == "Declining Balance Lease (Rate per Lakh)"

\* the longest lease duration tried (the widget allows 1..30)
MaxYears == 2

\* Lease Amount (LKR): an int, min_value = 0 and no maximum
LeaseAmounts == {0, 1, 2000000, 2000000000}

\* Lease Duration (Years): an int, min_value = 1
LeaseDurations == 1..MaxYears

\* Annual Interest Rate (%): a float in 0.0 .. 50.0, typed with two
\* decimals, here in hundredths of a percent
InterestRateHundredths == {0, 1, 10, 1100, 5000}

\* the float the widget returns for a text of h hundredths: the float
\* nearest to the decimal
ParsePercent(h) == FDiv(FromInt(h), FromInt(100))

\* Rate per Lakh per Month (LKR): an int, min_value = 0
RatesPerLakh == {0, 1080}

Lakh == 100000

VARIABLES
  scenario,          \* the radio button
  lease_amount,      \* the number inputs
  lease_duration,
  interest_rate,
  rate_per_lakh,
  pc,                \* where the run of the script is
  error,             \* the exception that ended the run, and its line
  month,             \* the locals of the function that runs
  remaining_balance,
  monthly_principal_payment,
  lakhs_remaining,
  interest_payment,
  total_monthly_payment,
  principal_payment,
  total_payments,
  total_interest_paid,
  payment_schedule,
  loop_exit,
  result,            \* what calculate_declining_balance_payments returned
  monthly_payment,   \* what calculate_monthly_payment returned, and where
  return_line,
  total_interest,
  monthly_rate,
  schedule_data      \* the rows given to st.dataframe

inputs == <<scenario, lease_amount, lease_duration, interest_rate, rate_per_lakh>>

declining_locals ==
  <<monthly_principal_payment, lakhs_remaining, total_monthly_payment,
    total_interest_paid, payment_schedule, loop_exit, result>>

fixed_locals ==
  <<principal_payment, monthly_payment, return_line, total_interest, monthly_rate>>

vars ==
  <<inputs, pc, error, month, remaining_balance, interest_payment,
    total_payments, schedule_data, declining_locals, fixed_locals>>

NoError == [type |-> "none", line |-> 0]
ZeroDivisionError(line) == [type |-> "ZeroDivisionError", line |-> line]
NoResult ==
  [total_payments |-> FZero, total_interest |-> FZero,
   payment_schedule |-> <<>>, months_to_payoff |-> 0]

\* the script has run down to the button and waits for the click
Init ==
  /\ scenario \in {Fixed, Declining}
  /\ lease_amount \in LeaseAmounts
  /\ lease_duration \in LeaseDurations
  /\ IF scenario = Fixed
     THEN /\ interest_rate \in {ParsePercent(h) : h \in InterestRateHundredths}
          /\ rate_per_lakh = 0
     ELSE /\ interest_rate = FZero
          /\ rate_per_lakh \in RatesPerLakh
  /\ pc = "form"
  /\ error = NoError
  /\ month = 0
  /\ remaining_balance = FZero
  /\ monthly_principal_payment = FZero
  /\ lakhs_remaining = FZero
  /\ interest_payment = FZero
  /\ total_monthly_payment = FZero
  /\ principal_payment = FZero
  /\ total_payments = FZero
  /\ total_interest_paid = FZero
  /\ payment_schedule = <<>>
  /\ loop_exit = "none"
  /\ result = NoResult
  /\ monthly_payment = FZero
  /\ return_line = 0
  /\ total_interest = FZero
  /\ monthly_rate = FZero
  /\ schedule_data = <<>>

(***************************************************************************)
(* calculate_declining_balance_payments                                    *)
(***************************************************************************)

\* a faulty variant of MonthlyPrincipalPayment: the principal split over the
\* years instead of the months
PrincipalPerYear(principal, total_months) ==
  FDiv(FromInt(principal), FromInt(total_months \div 12))

\* monthly_principal_payment = principal / total_months
MonthlyPrincipalPayment(principal, total_months) ==
  FDiv(FromInt(principal), FromInt(total_months))

\* "Calculate Payments" with the declining balance lease chosen: the call
\* and the function down to its loop
ClickCalculateDeclining ==
  /\ pc = "form"
  /\ scenario = Declining
  /\ remaining_balance' = FromInt(lease_amount)
  /\ monthly_principal_payment' = MonthlyPrincipalPayment(lease_amount, lease_duration * 12)
  /\ total_payments' = FZero
  /\ total_interest_paid' = FZero
  /\ payment_schedule' = <<>>
  /\ month' = 0
  /\ pc' = "declining_loop"
  /\ UNCHANGED <<inputs, error, interest_payment, schedule_data, lakhs_remaining,
                 total_monthly_payment, loop_exit, result, fixed_locals>>

\* faulty variants of BalanceAfter: the payment added to the balance, and
\* the balance left as it was
BalanceGrown(balance, principal_part) == FAdd(balance, principal_part)
BalanceUnchanged(balance, principal_part) == balance

\* the balance after a month's principal payment
BalanceAfter(balance, principal_part) == FSub(balance, principal_part)

\* the charge of a month on the balance at its start
InterestOn(balance, rate) == FMul(FDiv(balance, FromInt(Lakh)), FromInt(rate))

\* a faulty variant of PaymentOf: the charge alone, without the principal
PaymentOfChargeOnly(principal_part, interest) == interest

\* the month's payment
PaymentOf(principal_part, interest) == FAdd(principal_part, interest)

\* a faulty variant of PaidOff: remaining_balance < 0
PaidOffStrict(balance) == DyCmp(balance, FZero) < 0

\* the test that leaves the loop early
PaidOff(balance) == FLe(balance, FZero)

\* one pass of the loop over range(1, total_months + 1)
DecliningMonth ==
  /\ pc = "declining_loop"
  /\ month < lease_duration * 12
  /\ month' = month + 1
  /\ lakhs_remaining' = FDiv(remaining_balance, FromInt(Lakh))
  /\ interest_payment' = InterestOn(remaining_balance, rate_per_lakh)
  /\ total_monthly_payment' = PaymentOf(monthly_principal_payment, interest_payment')
  /\ remaining_balance' = BalanceAfter(remaining_balance, monthly_principal_payment)
  /\ total_payments' = FAdd(total_payments, total_monthly_payment')
  /\ total_interest_paid' = FAdd(total_interest_paid, interest_payment')
  /\ payment_schedule' = Append(payment_schedule,
       [Month           |-> month',
        Payment         |-> Format2f(total_monthly_payment'),
        Principal       |-> Format2f(monthly_principal_payment),
        Interest        |-> Format2f(interest_payment'),
        Balance         |-> Format2f(remaining_balance'),
        Lakhs_Remaining |-> Format2f(lakhs_remaining')])
  /\ IF PaidOff(remaining_balance')
     THEN pc' = "declining_return" /\ loop_exit' = "break"
     ELSE IF month' = lease_duration * 12
          THEN pc' = "declining_return" /\ loop_exit' = "exhausted"
          ELSE pc' = "declining_loop" /\ loop_exit' = "none"
  /\ UNCHANGED <<inputs, error, monthly_principal_payment, schedule_data, result,
                 fixed_locals>>

\* the return of the function, and the first payment shown
DecliningReturn ==
  /\ pc = "declining_return"
  /\ result' = [total_payments   |-> total_payments,
                total_interest   |-> total_interest_paid,
                payment_schedule |-> payment_schedule,
                months_to_payoff |-> Len(payment_schedule)]
  /\ pc' = "declining_summary"
  /\ UNCHANGED <<inputs, error, month, remaining_balance, interest_payment,
                 total_payments, schedule_data, monthly_principal_payment,
                 lakhs_remaining, total_monthly_payment, total_interest_paid,
                 payment_schedule, loop_exit, fixed_locals>>

\* the payment summary: result['total_interest'] / lease_amount
DecliningSummary ==
  /\ pc = "declining_summary"
  /\ IF lease_amount = 0
     THEN pc' = "raised" /\ error' = ZeroDivisionError(203)
     ELSE pc' = "declining_preview" /\ error' = error
  /\ UNCHANGED <<inputs, month, remaining_balance, interest_payment,
                 total_payments, schedule_data, declining_locals, fixed_locals>>

Min(a, b) == IF a < b THEN a ELSE b

\* the preview: the first 12 rows of the schedule, or all when fewer
DecliningPreview ==
  /\ pc = "declining_preview"
  /\ schedule_data' = SubSeq(result.payment_schedule, 1,
                             Min(12, Len(result.payment_schedule)))
  /\ pc' = "done"
  /\ UNCHANGED <<inputs, error, month, remaining_balance, interest_payment,
                 total_payments, declining_locals, fixed_locals>>

(***************************************************************************)
(* calculate_monthly_payment                                               *)
(***************************************************************************)

\* annual_rate_decimal = interest_rate / 100
AnnualRateDecimal(rate) == FDiv(rate, FromInt(100))

\* monthly_rate = annual_rate / 12
MonthlyRate(annual_rate) == FDiv(annual_rate, FromInt(12))

\* a faulty variant of RateIsZero: the test left out
RateNeverZero(rate) == FALSE

\* if monthly_rate == 0
RateIsZero(rate) == IsZero(rate)

\* principal / total_months
EqualSplit(principal, total_months) == FDiv(FromInt(principal), FromInt(total_months))

\* (1 + monthly_rate)**total_months
Growth(rate, total_months, dir) == FPow(FAdd(FromInt(1), rate), total_months, dir)

\* (1 + monthly_rate)**total_months - 1
AnnuityDenominator(growth) == FSub(growth, FromInt(1))

\* principal * (monthly_rate * growth) / denominator, denominator # 0
Annuity(principal, rate, growth, denominator) ==
  FDiv(FMul(FromInt(principal), FMul(rate, growth)), denominator)

\* The function: the line it ends at, whether that line raised
\* ZeroDivisionError, and the value returned.  dir is the rounding of pow.
calculate_monthly_payment(principal, annual_rate, years, dir) ==
  Bind(MonthlyRate(annual_rate), LAMBDA rate :
    IF RateIsZero(rate)
    THEN [line |-> 21, raised |-> FALSE, value |-> EqualSplit(principal, years * 12)]
    ELSE Bind(Growth(rate, years * 12, dir), LAMBDA growth :
         Bind(AnnuityDenominator(growth), LAMBDA denominator :
           IF IsZero(denominator)
           THEN [line |-> 23, raised |-> TRUE, value |-> FZero]
           ELSE [line |-> 24, raised |-> FALSE,
                 value |-> Annuity(principal, rate, growth, denominator)])))

(***************************************************************************)
(* main, the fixed interest rate lease                                     *)
(***************************************************************************)

\* "Calculate Payments" with the fixed rate lease chosen: the call of
\* calculate_monthly_payment
ClickCalculateFixed ==
  /\ pc = "form"
  /\ scenario = Fixed
  /\ \E dir \in {-1, 1} :
       \E r \in {calculate_monthly_payment(lease_amount, AnnualRateDecimal(interest_rate),
                                           lease_duration, dir)} :
         /\ return_line' = r.line
         /\ monthly_payment' = r.value
         /\ IF r.raised
            THEN pc' = "raised" /\ error' = ZeroDivisionError(r.line)
            ELSE pc' = "fixed_summary" /\ error' = error
  /\ UNCHANGED <<inputs, month, remaining_balance, interest_payment, total_payments,
                 schedule_data, declining_locals, principal_payment, total_interest,
                 monthly_rate>>

\* total_payments = monthly_payment * lease_duration * 12
TotalOfPayments(payment, years) == FMul(FMul(payment, FromInt(years)), FromInt(12))

\* The payment summary (total_interest / lease_amount), then the set-up of
\* the schedule's loop
FixedSummary ==
  /\ pc = "fixed_summary"
  /\ total_payments' = TotalOfPayments(monthly_payment, lease_duration)
  /\ total_interest' = FSub(total_payments', FromInt(lease_amount))
  /\ IF lease_amount = 0
     THEN /\ pc' = "raised"
          /\ error' = ZeroDivisionError(165)
          /\ UNCHANGED <<remaining_balance, monthly_rate, schedule_data, month>>
     ELSE /\ pc' = "fixed_loop"
          /\ error' = error
          /\ remaining_balance' = FromInt(lease_amount)
          /\ monthly_rate' = MonthlyRate(AnnualRateDecimal(interest_rate))
          /\ schedule_data' = <<>>
          /\ month' = 0
  /\ UNCHANGED <<inputs, interest_payment, declining_locals, principal_payment,
                 monthly_payment, return_line>>

\* a variant of PreviewMonths: a pass for every month of the term
TermMonths == lease_duration * 12

\* the passes of the schedule's loop: range(1, 13)
PreviewMonths == 12

\* interest_payment = remaining_balance * monthly_rate
InterestPart(balance, rate) == FMul(balance, rate)

\* a faulty variant of PrincipalPart: the whole payment taken off the balance
PrincipalPartWhole(payment, interest) == payment

\* principal_payment = monthly_payment - interest_payment
PrincipalPart(payment, interest) == FSub(payment, interest)

\* the body of the schedule's loop
ScheduleMonth ==
  /\ month' = month + 1
  /\ interest_payment' = InterestPart(remaining_balance, monthly_rate)
  /\ principal_payment' = PrincipalPart(monthly_payment, interest_payment')
  /\ remaining_balance' = BalanceAfter(remaining_balance, principal_payment')
  /\ schedule_data' = Append(schedule_data,
       [Month     |-> month',
        Payment   |-> Format2f(monthly_payment),
        Principal |-> Format2f(principal_payment'),
        Interest  |-> Format2f(interest_payment'),
        Balance   |-> Format2f(remaining_balance')])
  /\ UNCHANGED <<inputs, pc, error, total_payments, declining_locals,
                 monthly_payment, return_line, total_interest, monthly_rate>>

\* one pass of the loop
FixedMonth ==
  /\ pc = "fixed_loop"
  /\ month < PreviewMonths
  /\ ScheduleMonth

\* st.dataframe(schedule_data) after the loop
FixedDataframe ==
  /\ pc = "fixed_loop"
  /\ month = PreviewMonths
  /\ pc' = "done"
  /\ UNCHANGED <<inputs, error, month, remaining_balance, interest_payment,
                 total_payments, schedule_data, declining_locals, fixed_locals>>

Next ==
  \/ ClickCalculateDeclining
  \/ DecliningMonth
  \/ DecliningReturn
  \/ DecliningSummary
  \/ DecliningPreview
  \/ ClickCalculateFixed
  \/ FixedSummary
  \/ FixedMonth
  \/ FixedDataframe

Spec == Init /\ [][Next]_vars

(***************************************************************************)
(* The schedule's loop body applied for the whole term, years * 12 months, *)
(* to the payment calculate_monthly_payment returned.                      *)
(***************************************************************************)
FullTermMonth ==
  /\ pc = "fixed_loop"
  /\ month < lease_duration * 12
  /\ ScheduleMonth

FullTermEnd ==
  /\ pc = "fixed_loop"
  /\ month = lease_duration * 12
  /\ pc' = "done"
  /\ UNCHANGED <<inputs, error, month, remaining_balance, interest_payment,
                 total_payments, schedule_data, declining_locals, fixed_locals>>

InitFullTerm == Init /\ scenario = Fixed

NextFullTerm ==
  \/ ClickCalculateFixed
  \/ FixedSummary
  \/ FullTermMonth
  \/ FullTermEnd

SpecFullTerm == InitFullTerm /\ [][NextFullTerm]_vars

(***************************************************************************)
(* What the properties below are stated with.                              *)
(***************************************************************************)

\* the number a recorded amount stands for
Amount(f) == Dy(f.neg, f.hundredths, 0)

Le(x, y) == DyCmp(x, y) <= 0
Lt(x, y) == DyCmp(x, y) < 0

\* |x| * 2^k <= |y|
Within(x, k, y) == DyCmp(DyScale(DyAbs(x), k), DyAbs(y)) <= 0

\* |x| <= 0.01
WithinOneCent(x) == DyCmp(DyMul(DyAbs(x), FromInt(100)), FromInt(1)) <= 0

\* q is within half a unit in its last place of a / b
NearestQuotient(q, a, b) ==
  /\ ~IsZero(q)
  /\ DyCmp(DyScale(DyAbs(DySub(DyMul(q, FromInt(b)), FromInt(a))), 1),
           Dy(FALSE, BFromInt(b), q.e)) <= 0

\* calculate_declining_balance_payments has returned
DecliningReturned ==
  scenario = Declining /\ pc \in {"declining_summary", "declining_preview", "done", "raised"}

\* the loop of calculate_declining_balance_payments has ended
DecliningLoopEnded ==
  (scenario = Declining /\ pc = "declining_return") \/ DecliningReturned

\* the fixed rate lease's summary is computed
FixedSummarized == scenario = Fixed /\ pc \in {"fixed_loop", "done"}

BalanceRecorded(i) == Amount(payment_schedule[i].Balance)
PaymentRecorded(i) == Amount(payment_schedule[i].Payment)

(***************************************************************************)
(* C1                                                                      *)
(***************************************************************************)

C2_MonthsToPayoff ==
  (scenario = Declining /\ lease_amount > 0) =>
    /\ Len(payment_schedule) = month
    /\ month <= lease_duration * 12
    /\ pc = "declining_loop" => loop_exit = "none"
    /\ loop_exit # "none" => month = lease_duration * 12
    /\ DecliningReturned =>
         /\ result.months_to_payoff = Len(result.payment_schedule)
         /\ result.months_to_payoff = lease_duration * 12

C2_Witness ==
  /\ scenario = Declining
  /\ lease_amount > 0
  /\ pc = "declining_summary"
  /\ loop_exit = "break"
  /\ result.months_to_payoff = lease_duration * 12

(***************************************************************************)
(* C3                                                                      *)
(***************************************************************************)

C4_PaymentsNonIncreasing ==
  scenario = Declining =>
    /\ \A i \in 1..(Len(payment_schedule) - 1) :
         Le(PaymentRecorded(i + 1), PaymentRecorded(i))
    /\ \A i \in 1..Len(payment_schedule) :
         Le(PaymentRecorded(Len(payment_schedule)), PaymentRecorded(i))

C4_Witness ==
  /\ scenario = Declining
  /\ lease_amount > 0
  /\ rate_per_lakh > 0
  /\ pc = "declining_summary"
  /\ Lt(PaymentRecorded(Len(payment_schedule)), PaymentRecorded(1))

(***************************************************************************)
(* C5                                                                      *)
(***************************************************************************)

\* C5: with an annual rate of 0 and a positive principal,
\* calculate_monthly_payment returns at line 21, the equal split, without
\* evaluating the annuity formula of line 23, and what it returns is the
\* float nearest to principal / (years * 12).
C5_ZeroRateEqualSplit ==
  (scenario = Fixed /\ lease_amount > 0 /\ IsZero(interest_rate) /\ pc # "form") =>
    /\ return_line = 21
    /\ pc # "raised"
    /\ NearestQuotient(monthly_payment, lease_amount, lease_duration * 12)

C5_Witness ==
  /\ scenario = Fixed
  /\ lease_amount > 0
  /\ IsZero(interest_rate)
  /\ pc = "fixed_summary"
  /\ return_line = 21

(***************************************************************************)
(* C6                                                                      *)
(***************************************************************************)

C7_ZeroPrincipalRejected ==
  lease_amount = 0 => pc = "form" \/ error.type = "InvalidInput"

(***************************************************************************)
(* C8                                                                      *)
(***************************************************************************)

\* C8 as the note in the sidebar states it: a month's payment in the
\* declining balance model is the balance at the start of the month
\* divided by 100,000 (lakhs_remaining), times the rate per lakh.
C8_PaymentIsChargeOnBalance ==
  (scenario = Declining /\ month >= 1) =>
    DyCmp(total_monthly_payment, FMul(lakhs_remaining, FromInt(rate_per_lakh))) = 0

(***************************************************************************)
(* C9                                                                      *)
(***************************************************************************)

C10_ZeroLeaseAmount ==
  lease_amount = 0 =>
    /\ pc \notin {"done", "fixed_loop", "declining_preview"}
    /\ pc = "raised" \/ ENABLED Next
    /\ pc = "raised" =>
         error = ZeroDivisionError(IF scenario = Fixed THEN 165 ELSE 203)
    /\ DecliningReturned =>
         /\ result.months_to_payoff = 1
         /\ Len(result.payment_schedule) = 1

C10_Witness ==
  /\ lease_amount = 0
  /\ lease_duration = 2
  /\ scenario = Declining
  /\ pc = "raised"
  /\ error.line = 203
  /\ result.months_to_payoff = 1

====
